---- MODULE Spec2Model ----
(***************************************************************************)
(* Batch OCR orchestration of OCR_AI_or_offline: the coordinator           *)
(* (OCRProcessor.process_batch), the sequential adapter                    *)
(* (OCRProcessor.process_images_offline over OfflineOCRProcessor) and the  *)
(* concurrent adapter (OnlineOCRProcessor.process_images_batch with its    *)
(* per-item retry loop _process_single_image), with the sorter            *)
(* (ImageSorter.sort_files) and the report formatter                       *)
(* (ResultFormatter.format_results) that the coordinator calls.            *)
(***************************************************************************)
EXTENDS Integers, Sequences, FiniteSets, TLC

\* ------------------------------------------------------------------------
\* Bounds of the model
\* ------------------------------------------------------------------------
MaxItems == 2
MaxRetry == 2
MaxFiles == 3
MaxRuns == 2

\* ------------------------------------------------------------------------
\* Program constants
\* ------------------------------------------------------------------------
DefaultThreads == 5
DefaultTimeout == 30
DefaultRetry == 3
BackoffBase == 2

None == "None"

\* Exceptions that leave process_batch
PoolFault == "ValueError: max_workers must be greater than 0"
ReportFault == "OSError: report not written"
Unbound == <<"unbound">>

\* Files the batch may name: one readable image, one image that is not on
\* disk, one existing file whose suffix is no image format.
Paths == {"a.png", "gone.png", "c.txt"}

\* The online adapter never looks at the suffix: "c.txt" is to it as "a.png".
OnlinePaths == {"a.png", "gone.png"}

exists(p) == p # "gone.png"

suffix(p) == IF p = "c.txt" THEN ".txt" ELSE ".png"

supported_formats == {".png", ".jpg", ".jpeg", ".tiff", ".bmp"}

basename(p) == p

\* Texts a backend may hand back: empty, whitespace only, padded text.
Texts == {<<>>, <<" ">>, <<" ", "a", " ">>}

\* Pool sizes tried: one worker, and two workers.
PoolSizes == {1, 2}

\* What one call of the remote client does: raise, or return a text.
RemoteBehaviours ==
    {[raises |-> TRUE, text |-> <<>>]} \cup {[raises |-> FALSE, text |-> t] : t \in Texts}

\* What one run of the local engine does for a readable image.
EngineBehaviours ==
    {[fails |-> "language", text |-> <<>>], [fails |-> "engine", text |-> <<>>]}
        \cup {[fails |-> None, text |-> t] : t \in Texts}

RECURSIVE lstrip(_)
lstrip(s) == IF s # <<>> /\ Head(s) = " " THEN lstrip(Tail(s)) ELSE s

RECURSIVE rstrip(_)
rstrip(s) == IF s # <<>> /\ s[Len(s)] = " " THEN rstrip(SubSeq(s, 1, Len(s) - 1)) ELSE s

strip(s) == rstrip(lstrip(s))

\* OCRResult(file_path, success, text_content, error_message, processing_time)
OCRResult(p, ok, text, err, t) ==
    [file_path |-> p, success |-> ok, text_content |-> text,
     error_message |-> err, processing_time |-> t]

\* An empty slot of the pre-filled results list ([None] * len(image_paths)).
NoneResult == OCRResult(None, FALSE, <<>>, None, 0)

\* ------------------------------------------------------------------------
\* Ordering: ImageSorter
\* ------------------------------------------------------------------------

\* File names given to the sorter on its own. "SUP2+1.png" stands for the
\* name made of SUPERSCRIPT TWO (U+00B2) followed by "1.png".
SortNames == {"a1.png", "a2.png", "a10.png", "A2.png", "SUP2+1.png"}

png == <<".", "p", "n", "g">>

\* The characters of os.path.basename(p)
chars(p) ==
    CASE p = "a1.png" -> <<"a", "1">> \o png
      [] p = "a2.png" -> <<"a", "2">> \o png
      [] p = "a10.png" -> <<"a", "1", "0">> \o png
      [] p = "A2.png" -> <<"A", "2">> \o png
      [] p = "SUP2+1.png" -> <<"SUP2", "1">> \o png
      [] p = "a.png" -> <<"a">> \o png
      [] p = "gone.png" -> <<"g", "o", "n", "e">> \o png
      [] p = "c.txt" -> <<"c", ".", "t", "x", "t">>

\* ord(c): the code point of a character
ord(c) ==
    CASE c = "." -> 46 [] c = "0" -> 48 [] c = "1" -> 49 [] c = "2" -> 50
      [] c = "A" -> 65 [] c = "a" -> 97 [] c = "c" -> 99 [] c = "e" -> 101
      [] c = "g" -> 103 [] c = "n" -> 110 [] c = "o" -> 111 [] c = "p" -> 112
      [] c = "t" -> 116 [] c = "x" -> 120 [] c = "SUP2" -> 178

\* str.lower() of one character
lower_char(c) == IF c = "A" THEN "a" ELSE c

\* the characters \d matches
re_d(c) == c \in {"0", "1", "2"}

\* the characters str.isdigit() accepts: U+00B2 is a digit to it, not to \d
isdigit_char(c) == re_d(c) \/ c = "SUP2"

\* part.isdigit()
isdigit(part) == part # <<>> /\ \A k \in 1..Len(part) : isdigit_char(part[k])

\* int(part) raises ValueError
int_raises(part) == \E k \in 1..Len(part) : ~re_d(part[k])

RECURSIVE int(_)
int(part) ==
    IF part = <<>> THEN 0
    ELSE 10 * int(SubSeq(part, 1, Len(part) - 1)) + (ord(part[Len(part)]) - ord("0"))

\* part.lower(), as the code points Python compares strings by
lower(part) == [k \in 1..Len(part) |-> ord(lower_char(part[k]))]

\* re.split(r'(\d+)', text): runs of other characters and runs of digits in
\* turn, the first and the last run being of other characters (maybe empty)
RECURSIVE re_split(_, _)
re_split(text, parts) ==
    IF text = <<>>
    THEN IF Len(parts) % 2 = 0 THEN Append(parts, <<>>) ELSE parts
    ELSE IF re_d(Head(text)) = (Len(parts) % 2 = 0)
    THEN re_split(Tail(text), [parts EXCEPT ![Len(parts)] = Append(@, Head(text))])
    ELSE re_split(Tail(text), Append(parts, <<Head(text)>>))

\* convert_part: int(part) if part.isdigit() else part.lower(). A number is
\* kept as a one-element sequence; in a key numbers and texts alternate, so
\* a number is only ever compared with a number.
convert_part(part) == IF isdigit(part) THEN <<int(part)>> ELSE lower(part)

\* _natural_sort_key raises: some part passes isdigit() and fails int()
natural_sort_key_raises(text) ==
    LET parts == re_split(text, <<<<>>>>)
    IN  \E k \in 1..Len(parts) : isdigit(parts[k]) /\ int_raises(parts[k])

natural_sort_key(text) ==
    LET parts == re_split(text, <<<<>>>>)
    IN  [k \in 1..Len(parts) |-> convert_part(parts[k])]

\* Python's < on strings and on lists of numbers
seq_less(a, b) ==
    \E k \in 1..Len(b) :
        /\ \A m \in 1..(k - 1) : m <= Len(a) /\ a[m] = b[m]
        /\ (k > Len(a) \/ a[k] < b[k])

\* Python's < on sort keys (lists of parts)
key_less(x, y) ==
    \E k \in 1..Len(y) :
        /\ \A m \in 1..(k - 1) : m <= Len(x) /\ x[m] = y[m]
        /\ (k > Len(x) \/ seq_less(x[k], y[k]))

\* before as it would be if a descending sort were an ascending sort turned
\* round: equal keys end in reverse input order
before_reversed_ties(keys, reverse, i, j) ==
    LET lt == IF reverse THEN key_less(keys[j], keys[i]) ELSE key_less(keys[i], keys[j])
        gt == IF reverse THEN key_less(keys[i], keys[j]) ELSE key_less(keys[j], keys[i])
    IN  lt \/ (~gt /\ IF reverse THEN j < i ELSE i < j)

\* sorted() puts element i before element j: by key, and by position for
\* equal keys (the sort is stable, also with reverse=True)
before(keys, reverse, i, j) ==
    LET lt == IF reverse THEN key_less(keys[j], keys[i]) ELSE key_less(keys[i], keys[j])
        gt == IF reverse THEN key_less(keys[i], keys[j]) ELSE key_less(keys[j], keys[i])
    IN  lt \/ (~gt /\ i < j)

\* sorted(paths, key=..., reverse=...), keys[i] being the key of paths[i]
sorted(paths, keys, reverse) ==
    LET position(i) ==
            1 + Cardinality({j \in 1..Len(paths) : j # i /\ before(keys, reverse, j, i)})
    IN  [r \in 1..Len(paths) |-> paths[CHOOSE i \in 1..Len(paths) : position(i) = r]]

sort_natural(paths) ==
    sorted(paths, [i \in 1..Len(paths) |-> natural_sort_key(chars(paths[i]))], FALSE)

sort_alphabetical(paths) ==
    sorted(paths, [i \in 1..Len(paths) |-> <<lower(chars(paths[i]))>>], FALSE)

sort_reverse_alphabetical(paths) ==
    sorted(paths, [i \in 1..Len(paths) |-> <<lower(chars(paths[i]))>>], TRUE)

\* What the file system says of one file when the sorter asks: os.stat and
\* os.path.getsize may fail (stat_ok), os.path.getmtime may fail (mtime_ok).
FileStats ==
    {[stat_ok |-> FALSE, mtime_ok |-> FALSE, ctime |-> 0, mtime |-> 0, size |-> 0],
     [stat_ok |-> FALSE, mtime_ok |-> TRUE, ctime |-> 0, mtime |-> 2, size |-> 0],
     [stat_ok |-> TRUE, mtime_ok |-> TRUE, ctime |-> 1, mtime |-> 2, size |-> 1]}

\* The strategies that look at the files; the others read names only.
stat_methods == {"creation_time", "modification_time", "file_size", "file_size_desc"}

\* What the file system may say of the files of a list while it is sorted.
file_system(paths, method) ==
    IF method \in stat_methods
    THEN {st \in [1..Len(paths) -> FileStats] :
            \A i, j \in 1..Len(paths) : paths[i] = paths[j] => st[i] = st[j]}
    ELSE {[i \in 1..Len(paths) |->
            [stat_ok |-> TRUE, mtime_ok |-> TRUE, ctime |-> 1, mtime |-> 2, size |-> 1]]}

get_file_modification_time(f) == IF f.mtime_ok THEN f.mtime ELSE 0

get_file_creation_time(f) ==
    IF f.stat_ok THEN f.ctime ELSE get_file_modification_time(f)

get_file_size(f) == IF f.stat_ok THEN f.size ELSE 0

sort_by_creation_time(paths, st) ==
    sorted(paths, [i \in 1..Len(paths) |-> <<<<get_file_creation_time(st[i])>>>>], FALSE)

sort_by_modification_time(paths, st) ==
    sorted(paths, [i \in 1..Len(paths) |-> <<<<get_file_modification_time(st[i])>>>>], FALSE)

sort_by_file_size(paths, st) ==
    sorted(paths, [i \in 1..Len(paths) |-> <<<<get_file_size(st[i])>>>>], FALSE)

sort_by_file_size_desc(paths, st) ==
    sorted(paths, [i \in 1..Len(paths) |-> <<<<get_file_size(st[i])>>>>], TRUE)

\* sort_random that draws every place afresh (random.choices)
sort_random_with_replacement(paths) ==
    {[r \in 1..Len(paths) |-> paths[f[r]]] : f \in [1..Len(paths) -> 1..Len(paths)]}

\* _sort_random: every outcome random.shuffle can leave
sort_random(paths) ==
    {[r \in 1..Len(paths) |-> paths[f[r]]] : f \in Permutations(1..Len(paths))}

sort_methods ==
    {"natural", "alphabetical", "creation_time", "modification_time", "file_size",
     "file_size_desc", "reverse_alphabetical", "random"}

\* What a call of sort_files leaves: a list, or the exception raised.
Returned(value) == [called |-> TRUE, raised |-> None, value |-> value]

Raised(e) == [called |-> TRUE, raised |-> e, value |-> <<>>]

NotCalled == [called |-> FALSE, raised |-> None, value |-> <<>>]

\* sort_function(file_paths.copy()) raises
sort_function_raises(paths, method) ==
    method = "natural" /\ \E i \in 1..Len(paths) : natural_sort_key_raises(chars(paths[i]))

\* sort_function(file_paths.copy()): the lists it may return
sort_function(paths, method, st) ==
    CASE method = "natural" -> {sort_natural(paths)}
      [] method = "alphabetical" -> {sort_alphabetical(paths)}
      [] method = "creation_time" -> {sort_by_creation_time(paths, st)}
      [] method = "modification_time" -> {sort_by_modification_time(paths, st)}
      [] method = "file_size" -> {sort_by_file_size(paths, st)}
      [] method = "file_size_desc" -> {sort_by_file_size_desc(paths, st)}
      [] method = "reverse_alphabetical" -> {sort_reverse_alphabetical(paths)}
      [] method = "random" -> sort_random(paths)

\* ImageSorter.sort_files: every way the call may end. st[i] is what the
\* file system says of paths[i].
sort_files(paths, method, st) ==
    IF paths = <<>> THEN {Returned(<<>>)}
    ELSE IF method \notin sort_methods THEN {Raised("ValueError")}
    ELSE IF sort_function_raises(paths, method) THEN {Returned(paths)}
    ELSE {Returned(r) : r \in sort_function(paths, method, st)}

\* sort_images that hands the paths on as they came
sort_images_unsorted(paths, method, st) == {paths}

\* sort_images whose except branch returns nothing
sort_images_dropping(paths, method, st) ==
    {r.value : r \in sort_files(paths, method, st)}

\* OCRProcessor.sort_images: the sorter's list, or the paths as they came
\* when the sorter raised
sort_images(paths, method, st) ==
    {IF r.raised = None THEN r.value ELSE paths : r \in sort_files(paths, method, st)}

\* ------------------------------------------------------------------------
\* Report: ResultFormatter
\* ------------------------------------------------------------------------

\* The report is a text; it is kept as the sequence of its blocks, each with
\* the section it belongs to and what is printed in it.
block(section, index, path, text, error, figures) ==
    [section |-> section, index |-> index, file_path |-> path, text |-> text,
     error |-> error, figures |-> figures]

\* What datetime.now() gives at the head and at the foot of one report.
Clocks ==
    {[header |-> 1, footer |-> 1], [header |-> 1, footer |-> 2],
     [header |-> 2, footer |-> 2]}

\* "[Текст не обнаружен]"
NoText == <<"[no text]">>

RECURSIVE sum(_)
sum(numbers) == IF numbers = <<>> THEN 0 ELSE Head(numbers) + sum(Tail(numbers))

max(numbers) == CHOOSE x \in {numbers[k] : k \in 1..Len(numbers)} :
                    \A k \in 1..Len(numbers) : numbers[k] <= x

min(numbers) == CHOOSE x \in {numbers[k] : k \in 1..Len(numbers)} :
                    \A k \in 1..Len(numbers) : x <= numbers[k]

\* [r for r in results if r.success]
successful_results(results) == SelectSeq(results, LAMBDA r : r.success)

\* failed_results without its filter
failed_results_unfiltered(results) == results

\* [r for r in results if not r.success]
failed_results(results) == SelectSeq(results, LAMBDA r : ~r.success)

generate_empty_report(clock) ==
    <<block("empty", 0, None, <<>>, None, <<clock.header>>)>>

generate_header(results, clock) ==
    <<block("header", 0, None, <<>>, None,
            <<clock.header, Len(results), Len(successful_results(results)),
              Len(failed_results(results))>>)>>

generate_statistics(results) ==
    LET ok == successful_results(results)
        times == SelectSeq([k \in 1..Len(ok) |-> ok[k].processing_time], LAMBDA t : t > 0)
        lengths == [k \in 1..Len(ok) |-> Len(ok[k].text_content)]
    IN  <<block("statistics", 0, None, <<>>, None,
                <<Len(ok), Len(failed_results(results)),
                  (Len(ok) * 100) \div Len(results)>>
                \o (IF times # <<>>
                    THEN <<sum(times) \div Len(times), max(times), min(times)>>
                    ELSE <<>>)
                \o (IF lengths # <<>>
                    THEN <<sum(lengths), sum(lengths) \div Len(lengths), max(lengths)>>
                    ELSE <<>>))>>

format_single_result(result, index, metadata) ==
    block("succeeded", IF metadata THEN index ELSE 0, result.file_path,
          IF strip(result.text_content) # <<>> THEN strip(result.text_content) ELSE NoText,
          None,
          IF metadata THEN <<result.processing_time, Len(result.text_content)>> ELSE <<>>)

format_error_result(result) ==
    block("failed", 0, result.file_path, <<>>, result.error_message,
          <<result.processing_time>>)

generate_footer_statistics(results, clock) ==
    LET ok == successful_results(results)
        total_chars == sum([k \in 1..Len(ok) |-> Len(ok[k].text_content)])
        total_time == sum(SelectSeq([k \in 1..Len(results) |-> results[k].processing_time],
                                    LAMBDA t : t > 0))
    IN  IF ok = <<>>
        THEN <<block("footer", 0, None, <<>>, None, <<>>)>>
        ELSE <<block("footer", 0, None, <<>>, None,
                     <<total_chars, total_time,
                       IF total_time > 0 THEN total_chars \div total_time ELSE 0,
                       clock.footer>>)>>

format_detailed(results, metadata, clock) ==
    LET ok == successful_results(results)
        failed == failed_results(results)
    IN  generate_header(results, clock)
        \o (IF metadata THEN generate_statistics(results) ELSE <<>>)
        \o <<block("title", 0, None, <<>>, None, <<>>)>>
        \o [k \in 1..Len(ok) |-> format_single_result(ok[k], k, metadata)]
        \o (IF failed # <<>> /\ metadata
            THEN <<block("failed title", 0, None, <<>>, None, <<>>)>>
                 \o [k \in 1..Len(failed) |-> format_error_result(failed[k])]
            ELSE <<>>)
        \o (IF metadata THEN generate_footer_statistics(results, clock) ELSE <<>>)

format_simple(results, metadata, clock) ==
    LET ok == successful_results(results)
    IN  (IF metadata
         THEN <<block("header", 0, None, <<>>, None, <<clock.header>>)>>
         ELSE <<>>)
        \o [k \in 1..Len(ok) |->
              block("succeeded", IF metadata THEN k ELSE 0,
                    IF metadata THEN basename(ok[k].file_path) ELSE None,
                    IF strip(ok[k].text_content) # <<>>
                    THEN strip(ok[k].text_content) ELSE NoText,
                    None, <<>>)]

format_clean_text_only(results) ==
    LET texts == SelectSeq(successful_results(results),
                           LAMBDA r : strip(r.text_content) # <<>>)
    IN  [k \in 1..Len(texts) |->
            block("succeeded", 0, None, strip(texts[k].text_content), None, <<>>)]

\* ResultFormatter.format_results
format_results(results, metadata, type, clock) ==
    IF results = <<>> THEN generate_empty_report(clock)
    ELSE IF type = "detailed" THEN format_detailed(results, metadata, clock)
    ELSE IF type = "simple" THEN format_simple(results, metadata, clock)
    ELSE IF type = "clean" THEN format_clean_text_only(results)
    ELSE format_detailed(results, metadata, clock)

VARIABLES
    phase,            \* where process_batch is
    mode,             \* "offline" or "online"
    fault,            \* the exception process_batch raised, or None
    image_paths,      \* the ordered paths handed to the adapter
    max_threads,      \* online: max_workers of the pool
    retry_attempts,   \* online: self.retry_attempts
    timeout_seconds,  \* online: self.timeout_seconds
    latency,          \* environment: how long a remote call for item i takes
    wstate,           \* online: per item, "pending" | "call" | "sleep" | "finished"
    attempt,          \* online: per item, the loop variable of the retry loop
    last_error,       \* online: per item, last_error of the retry loop
    response,         \* online: per item, the local variable response
    elapsed,          \* online: per item, time.time() - start_time
    calls,            \* online: per item, calls received by the remote client
    fresult,          \* online: per item, the result held by its future
    results,          \* the adapter's results list
    completed,        \* online: indices in the order as_completed yielded them
    completed_count,  \* online: completed_count of update_progress
    events,           \* calls made to progress_callback, in order
    cancelled,        \* the presenter's cancellation flag
    batch_result,     \* the OCRBatchResult returned, or None
    report,           \* the text handed to the output file, <<>> before that
    engine_calls,     \* offline: calls made to the engine and its helpers
    file_paths,       \* the paths as the caller gave them
    sort_method,      \* the ordering strategy asked for
    sort_return,      \* what the caller's own call of the sorter gave
    include_metadata, \* ResultFormatter.format_results: include_metadata
    format_type,      \* ResultFormatter.format_results: format_type
    file_stats,       \* what the file system says of file_paths[i]
    ocr_presenter,    \* the fields of the OCRPresenter and where its thread is
    main_presenter    \* the fields of the MainPresenter, its model and threads

vars == <<phase, mode, fault, image_paths, max_threads, retry_attempts,
          timeout_seconds, latency, wstate, attempt, last_error, response,
          elapsed, calls, fresult, results, completed, completed_count,
          events, cancelled, batch_result, report, engine_calls, file_paths,
          sort_method, sort_return, include_metadata, format_type, file_stats,
          ocr_presenter, main_presenter>>

\* The presenters of the window; no step of the core touches them.
gui == <<ocr_presenter, main_presenter>>

settings == <<mode, max_threads, retry_attempts, timeout_seconds, latency, gui>>

\* What the caller asked for; no step of a running batch changes it.
request == <<file_paths, sort_method, sort_return, include_metadata, format_type,
             file_stats>>

config == <<mode, image_paths, max_threads, retry_attempts, timeout_seconds, latency,
            request, gui>>

worker == <<wstate, attempt, last_error, response, elapsed, calls, fresult>>

batch == <<phase, fault, image_paths, worker, results, completed, completed_count,
           events, cancelled, batch_result, report, engine_calls>>

\* Everything but the presenters.
core == <<batch, mode, max_threads, retry_attempts, timeout_seconds, latency, request>>

\* OCRPresenter.__init__
OCRPresenterInit ==
    [is_processing |-> FALSE, is_paused |-> FALSE, is_cancelled |-> FALSE,
     pause_event |-> TRUE, thread |-> "none", left |-> 0,
     current_progress |-> [total_files |-> 0, current_file_index |-> 0,
                           is_paused |-> FALSE, current_filename |-> ""],
     notified |-> "nothing"]

\* MainPresenter.__init__ and the ProcessingState of its AppModel
MainPresenterInit ==
    [processing_cancelled |-> FALSE, is_running |-> FALSE, current_file_index |-> 0,
     caller |-> "idle", threads |-> <<>>]

NoWindow ==
    /\ ocr_presenter = OCRPresenterInit
    /\ main_presenter = MainPresenterInit

N == Len(image_paths)

Items == 1..N

PathLists(P) == UNION {[1..n -> P] : n \in 0..MaxItems}

\* ------------------------------------------------------------------------
\* Initial states: process_batch has the ordered path list in hand
\* ------------------------------------------------------------------------
InitBatch(Threads, Retries, Timeouts, Latencies) ==
    /\ phase = "Ordered"
    /\ mode \in {"offline", "online"}
    /\ fault = None
    /\ image_paths \in PathLists(IF mode = "online" THEN OnlinePaths ELSE Paths)
    /\ max_threads \in Threads
    /\ retry_attempts \in Retries
    /\ timeout_seconds \in Timeouts
    /\ latency \in [1..Len(image_paths) -> Latencies]
    /\ wstate = [i \in 1..Len(image_paths) |-> "pending"]
    /\ attempt = [i \in 1..Len(image_paths) |-> 0]
    /\ last_error = [i \in 1..Len(image_paths) |-> None]
    /\ response = [i \in 1..Len(image_paths) |-> Unbound]
    /\ elapsed = [i \in 1..Len(image_paths) |-> 0]
    /\ calls = [i \in 1..Len(image_paths) |-> 0]
    /\ fresult = [i \in 1..Len(image_paths) |-> NoneResult]
    /\ results = <<>>
    /\ completed = <<>>
    /\ completed_count = 0
    /\ events = <<>>
    /\ cancelled = FALSE
    /\ batch_result = None
    /\ report = <<>>
    /\ engine_calls = <<>>
    /\ file_paths = image_paths
    /\ sort_method = "random"
    /\ file_stats \in file_system(file_paths, sort_method)
    /\ sort_return = NotCalled
    /\ include_metadata = TRUE
    /\ format_type = "detailed"
    /\ NoWindow

\* The offline adapter reads none of the online settings: they stay at the
\* defaults of OnlineOCRProcessor.__init__.
OfflineDefaults ==
    mode = "offline" =>
        /\ max_threads = DefaultThreads
        /\ retry_attempts = DefaultRetry
        /\ timeout_seconds = DefaultTimeout
        /\ \A i \in 1..Len(image_paths) : latency[i] = 1

Init ==
    /\ InitBatch(PoolSizes \cup {DefaultThreads}, 0..MaxRetry \cup {DefaultRetry},
                 {DefaultTimeout}, {1})
    /\ OfflineDefaults
    /\ mode = "online" => max_threads \in PoolSizes /\ retry_attempts \in 0..MaxRetry

\* ------------------------------------------------------------------------
\* Concurrent adapter: OnlineOCRProcessor
\* ------------------------------------------------------------------------

\* is_blank without the strip(): only the empty string counts as blank
is_blank_unstripped(text) == text = <<>>

\* `if response and response.strip()` is false
is_blank(text) == text = <<>> \/ strip(text) = <<>>

\* more_attempts off by one: the last attempt is followed by one more
more_attempts_off_by_one(att) == att < retry_attempts

\* `attempt < self.retry_attempts - 1`: another attempt follows this one
more_attempts(att) == att < retry_attempts - 1

\* the OCRResult of a non-blank response
success_result(p, text, t) == OCRResult(p, TRUE, strip(text), None, t)

\* f"Ошибка обработки {image_path}: {last_error}"
exhausted_message(e) == IF e = None THEN "ProcessingError: None" ELSE e

\* exhausted_result with error_message=last_error, unformatted
exhausted_result_bare(p, e, t) == OCRResult(p, FALSE, <<>>, e, t)

\* the OCRResult after the retry loop ran out
exhausted_result(p, e, t) == OCRResult(p, FALSE, <<>>, exhausted_message(e), t)

\* the OCRResult of the outer except of _process_single_image
critical_result(p, e, t) == OCRResult(p, FALSE, <<>>, e, t)

running == {j \in Items : wstate[j] \in {"call", "sleep"}}

\* a pool that starts a thread for every queued item, one too many included
idle_worker_off_by_one == Cardinality(running) <= max_threads

\* ThreadPoolExecutor(max_workers=self.max_threads): a thread is free to
\* take the next queued item
idle_worker == Cardinality(running) < max_threads

finish(i, r) ==
    /\ wstate' = [wstate EXCEPT ![i] = "finished"]
    /\ fresult' = [fresult EXCEPT ![i] = r]

\* process_batch selects the online adapter; process_images_batch pre-fills
\* the results list, builds the pool and submits every image.
process_images_online ==
    /\ phase = "Ordered"
    /\ mode = "online"
    /\ IF max_threads <= 0
       THEN /\ phase' = "Failed"
            /\ fault' = PoolFault
            /\ UNCHANGED results
       ELSE /\ phase' = "Dispatching"
            /\ results' = [i \in Items |-> NoneResult]
            /\ UNCHANGED fault
    /\ completed_count' = 0
    /\ UNCHANGED <<config, worker, completed, events, cancelled, batch_result, report,
                   engine_calls>>

\* process_single_image_start without the os.path.exists check: a missing
\* file goes into the retry loop like any other
process_single_image_start_unchecked(i) ==
    /\ phase = "Dispatching"
    /\ mode = "online"
    /\ wstate[i] = "pending"
    /\ \A j \in 1..(i - 1) : wstate[j] # "pending"
    /\ idle_worker
    /\ IF 0 < retry_attempts
       THEN /\ wstate' = [wstate EXCEPT ![i] = "call"]
            /\ attempt' = [attempt EXCEPT ![i] = 0]
            /\ calls' = [calls EXCEPT ![i] = @ + 1]
            /\ UNCHANGED fresult
       ELSE /\ finish(i, exhausted_result(image_paths[i], last_error[i], 0))
            /\ UNCHANGED <<attempt, calls>>
    /\ UNCHANGED <<phase, fault, config, last_error, response, elapsed, results,
                   completed, completed_count, events, cancelled, batch_result, report,
                   engine_calls>>

\* A pool thread takes the next queued image and runs _process_single_image
\* up to the first remote call.
process_single_image_start(i) ==
    /\ phase = "Dispatching"
    /\ mode = "online"
    /\ wstate[i] = "pending"
    /\ \A j \in 1..(i - 1) : wstate[j] # "pending"
    /\ idle_worker
    /\ IF ~exists(image_paths[i])
       THEN /\ finish(i, critical_result(image_paths[i], "FileNotFound", 0))
            /\ UNCHANGED <<attempt, calls>>
       ELSE IF 0 < retry_attempts
       THEN /\ wstate' = [wstate EXCEPT ![i] = "call"]
            /\ attempt' = [attempt EXCEPT ![i] = 0]
            /\ calls' = [calls EXCEPT ![i] = @ + 1]
            /\ UNCHANGED fresult
       ELSE /\ finish(i, exhausted_result(image_paths[i], last_error[i], 0))
            /\ UNCHANGED <<attempt, calls>>
    /\ UNCHANGED <<phase, fault, config, last_error, response, elapsed, results,
                   completed, completed_count, events, cancelled, batch_result, report,
                   engine_calls>>

\* remote_return whose success on a retried attempt keeps last_error in the
\* outcome
remote_return_residual(i, b) ==
    /\ phase = "Dispatching"
    /\ mode = "online"
    /\ wstate[i] = "call"
    /\ elapsed' = [elapsed EXCEPT ![i] = @ + latency[i]]
    /\ IF ~b.raises /\ ~is_blank(b.text)
       THEN /\ response' = [response EXCEPT ![i] = b.text]
            /\ finish(i, OCRResult(image_paths[i], TRUE, strip(b.text), last_error[i],
                                   elapsed'[i]))
            /\ UNCHANGED last_error
       ELSE /\ response' = [response EXCEPT ![i] = IF b.raises THEN @ ELSE b.text]
            /\ last_error' = [last_error EXCEPT
                                ![i] = IF b.raises THEN "RemoteError" ELSE "EmptyResponse"]
            /\ IF more_attempts(attempt[i])
               THEN /\ wstate' = [wstate EXCEPT ![i] = "sleep"]
                    /\ UNCHANGED fresult
               ELSE finish(i, exhausted_result(image_paths[i], last_error'[i], elapsed'[i]))
    /\ UNCHANGED <<phase, fault, config, attempt, calls, results, completed,
                   completed_count, events, cancelled, batch_result, report,
                   engine_calls>>

\* response_from_LLM comes back (or raises) and the loop body handles it.
remote_return(i, b) ==
    /\ phase = "Dispatching"
    /\ mode = "online"
    /\ wstate[i] = "call"
    /\ elapsed' = [elapsed EXCEPT ![i] = @ + latency[i]]
    /\ IF ~b.raises /\ ~is_blank(b.text)
       THEN /\ response' = [response EXCEPT ![i] = b.text]
            /\ finish(i, success_result(image_paths[i], b.text, elapsed'[i]))
            /\ UNCHANGED last_error
       ELSE /\ response' = [response EXCEPT ![i] = IF b.raises THEN @ ELSE b.text]
            /\ last_error' = [last_error EXCEPT
                                ![i] = IF b.raises THEN "RemoteError" ELSE "EmptyResponse"]
            /\ IF more_attempts(attempt[i])
               THEN /\ wstate' = [wstate EXCEPT ![i] = "sleep"]
                    /\ UNCHANGED fresult
               ELSE finish(i, exhausted_result(image_paths[i], last_error'[i], elapsed'[i]))
    /\ UNCHANGED <<phase, fault, config, attempt, calls, results, completed,
                   completed_count, events, cancelled, batch_result, report,
                   engine_calls>>

\* wait_time that is the same after every failed attempt
wait_time_constant(att) == BackoffBase

\* `wait_time = (attempt + 1) * 2`
wait_time(att) == (att + 1) * BackoffBase

\* time.sleep(wait_time) ends; the loop goes round and calls the client again.
backoff_done(i) ==
    /\ phase = "Dispatching"
    /\ mode = "online"
    /\ wstate[i] = "sleep"
    /\ elapsed' = [elapsed EXCEPT ![i] = @ + wait_time(attempt[i])]
    /\ attempt' = [attempt EXCEPT ![i] = @ + 1]
    /\ calls' = [calls EXCEPT ![i] = @ + 1]
    /\ wstate' = [wstate EXCEPT ![i] = "call"]
    /\ UNCHANGED <<phase, fault, config, last_error, response, fresult, results,
                   completed, completed_count, events, cancelled, batch_result, report,
                   engine_calls>>

\* future_result with futures correlated to the wrong index
future_result_misindexed(i) == fresult[N + 1 - i]

\* future.result(timeout=self.timeout_seconds)
future_result(i) ==
    IF wstate[i] = "finished"
    THEN fresult[i]
    ELSE OCRResult(image_paths[i], FALSE, <<>>, "Timeout", timeout_seconds)

\* store that appends in completion order instead of writing the slot
store_in_completion_order(res, index, r) == [res EXCEPT ![completed_count + 1] = r]

\* results[index] = result
store(res, index, r) == [res EXCEPT ![index] = r]

\* progress_event that reports the index of the future as the count
progress_event_by_index(count, index) ==
    [current |-> index, total |-> N, label |-> basename(image_paths[index])]

\* update_progress(index): the call made to progress_callback
progress_event(count, index) ==
    [current |-> count, total |-> N, label |-> basename(image_paths[index])]

\* One round of the as_completed loop: a finished future is yielded, its
\* result is put in its slot and progress is reported.
as_completed_next(i) ==
    /\ phase = "Dispatching"
    /\ mode = "online"
    /\ wstate[i] = "finished"
    /\ \A k \in 1..Len(completed) : completed[k] # i
    /\ results' = store(results, i, future_result(i))
    /\ completed' = Append(completed, i)
    /\ completed_count' = completed_count + 1
    /\ events' = Append(events, progress_event(completed_count', i))
    /\ UNCHANGED <<phase, fault, config, worker, cancelled, batch_result, report,
                   engine_calls>>

\* "Неизвестная ошибка: результат не получен" for every slot still None
fill_missing(res) ==
    [i \in 1..Len(res) |->
        IF res[i] = NoneResult
        THEN OCRResult(image_paths[i], FALSE, <<>>, "Unknown", 0)
        ELSE res[i]]

\* The pool is drained; process_images_batch returns the results list.
process_images_batch_return ==
    /\ phase = "Dispatching"
    /\ mode = "online"
    /\ Len(completed) = N
    /\ results' = fill_missing(results)
    /\ phase' = "Aggregating"
    /\ UNCHANGED <<fault, config, worker, completed, completed_count, events,
                   cancelled, batch_result, report,
                   engine_calls>>

\* ------------------------------------------------------------------------
\* Sequential adapter: OCRProcessor.process_images_offline
\* ------------------------------------------------------------------------

\* OfflineOCRProcessor.process_image
process_image(p, b) ==
    IF ~exists(p) THEN OCRResult(p, FALSE, <<>>, "FileNotFound", 0)
    ELSE IF suffix(p) \notin supported_formats
    THEN OCRResult(p, FALSE, <<>>, "UnsupportedFormat", 0)
    ELSE IF b.fails = "language" THEN OCRResult(p, FALSE, <<>>, "LanguageSetup", 1)
    ELSE IF b.fails = "engine" THEN OCRResult(p, FALSE, <<>>, "EngineError", 1)
    ELSE OCRResult(p, TRUE, strip(b.text), None, 1)

\* process_batch selects the offline adapter, which starts with results = [].
process_images_offline ==
    /\ phase = "Ordered"
    /\ mode = "offline"
    /\ phase' = "Dispatching"
    /\ results' = <<>>
    /\ UNCHANGED <<fault, config, worker, completed, completed_count, events,
                   cancelled, batch_result, report,
                   engine_calls>>

\* process_image_calls that sets the language up before looking at the path
process_image_calls_eager(p, b) ==
    IF ~exists(p) \/ suffix(p) \notin supported_formats THEN <<"setup_language">>
    ELSE IF b.fails = "language" THEN <<"setup_language", "setup_language">>
    ELSE <<"setup_language", "Image.open", "image_to_string">>

\* What process_image asks of its helpers and of the engine, in order:
\* language set-up (twice when "rus" fails and "eng" is tried), the loading
\* of the image, the recognition itself.
process_image_calls(p, b) ==
    IF ~exists(p) THEN <<>>
    ELSE IF suffix(p) \notin supported_formats THEN <<>>
    ELSE IF b.fails = "language" THEN <<"setup_language", "setup_language">>
    ELSE <<"setup_language", "Image.open", "image_to_string">>

\* The head of a loop round: progress_callback(i + 1, len(image_paths),
\* filename), before the image is looked at.
offline_progress ==
    /\ phase = "Dispatching"
    /\ mode = "offline"
    /\ Len(results) < N
    /\ Len(events) = Len(results)
    /\ events' = Append(events, progress_event(Len(results) + 1, Len(results) + 1))
    /\ UNCHANGED <<phase, fault, config, worker, results, completed, completed_count,
                   cancelled, batch_result, report, engine_calls>>

\* offline_next that lets the failure of an image end the batch
offline_next_aborting(b) ==
    /\ phase = "Dispatching"
    /\ mode = "offline"
    /\ Len(results) < N
    /\ Len(events) = Len(results) + 1
    /\ LET i == Len(results) + 1
           r == process_image(image_paths[i], b)
       IN  /\ engine_calls' = engine_calls
                \o [k \in 1..Len(process_image_calls(image_paths[i], b)) |->
                        [item |-> i, call |-> process_image_calls(image_paths[i], b)[k]]]
           /\ IF r.success
              THEN /\ results' = Append(results, r)
                   /\ UNCHANGED <<phase, fault>>
              ELSE /\ phase' = "Failed"
                   /\ fault' = r.error_message
                   /\ UNCHANGED results
    /\ UNCHANGED <<config, worker, completed, completed_count, events, cancelled,
                   batch_result, report>>

\* The rest of the loop round: the image is processed and its result
\* appended.
offline_next(b) ==
    /\ phase = "Dispatching"
    /\ mode = "offline"
    /\ Len(results) < N
    /\ Len(events) = Len(results) + 1
    /\ LET i == Len(results) + 1 IN
        /\ results' = Append(results, process_image(image_paths[i], b))
        /\ engine_calls' = engine_calls
            \o [k \in 1..Len(process_image_calls(image_paths[i], b)) |->
                    [item |-> i, call |-> process_image_calls(image_paths[i], b)[k]]]
    /\ UNCHANGED <<phase, fault, config, worker, completed, completed_count, events,
                   cancelled, batch_result, report>>

process_images_offline_return ==
    /\ phase = "Dispatching"
    /\ mode = "offline"
    /\ Len(results) = N
    /\ phase' = "Aggregating"
    /\ UNCHANGED <<fault, config, worker, results, completed, completed_count,
                   events, cancelled, batch_result, report,
                   engine_calls>>

\* ------------------------------------------------------------------------
\* Coordinator: the tail of process_batch, and cancellation
\* ------------------------------------------------------------------------

RECURSIVE successful(_)
successful(res) ==
    IF res = <<>> THEN 0
    ELSE (IF Head(res).success THEN 1 ELSE 0) + successful(Tail(res))

\* save_results as process_batch calls it: the detailed report with metadata
save_results(res, clock) == format_results(res, TRUE, "detailed", clock)

\* save_results, then the summary counts and the OCRBatchResult. Writing the
\* report may fail, and process_batch re-raises that.
aggregate(writable) ==
    /\ phase = "Aggregating"
    /\ IF writable
       THEN /\ \E clock \in Clocks : report' = save_results(results, clock)
            /\ batch_result' = [results |-> results, total_files |-> Len(file_paths),
                                successful_files |-> successful(results)]
            /\ phase' = "Done"
            /\ UNCHANGED fault
       ELSE /\ phase' = "Failed"
            /\ fault' = ReportFault
            /\ UNCHANGED <<batch_result, report>>
    /\ UNCHANGED <<config, worker, results, completed, completed_count, events,
                   cancelled, engine_calls>>

\* MainPresenter.cancel_processing / OCRPresenter.cancel_processing: the
\* presenter raises its flag while the batch thread runs.
cancel_processing ==
    /\ phase = "Dispatching"
    /\ ~cancelled
    /\ cancelled' = TRUE
    /\ UNCHANGED <<phase, fault, config, worker, results, completed,
                   completed_count, events, batch_result, report,
                   engine_calls>>

Next ==
    \/ process_images_online
    \/ \E i \in Items : process_single_image_start(i)
    \/ \E i \in Items, b \in RemoteBehaviours : remote_return(i, b)
    \/ \E i \in Items : backoff_done(i)
    \/ \E i \in Items : as_completed_next(i)
    \/ process_images_batch_return
    \/ process_images_offline
    \/ offline_progress
    \/ \E b \in EngineBehaviours : offline_next(b)
    \/ process_images_offline_return
    \/ \E w \in BOOLEAN : aggregate(w)
    \/ cancel_processing

Spec == Init /\ [][Next]_vars

\* Other starting points of the same machine.

\* Remote calls that may take longer than timeout_seconds.
InitTimeout ==
    /\ InitBatch(PoolSizes \cup {DefaultThreads}, 1..MaxRetry \cup {DefaultRetry},
                 {DefaultTimeout}, {1, DefaultTimeout + 1})
    /\ OfflineDefaults
    /\ mode = "online" => max_threads \in PoolSizes /\ retry_attempts \in 1..MaxRetry

SpecTimeout == InitTimeout /\ [][Next]_vars

\* Settings files with out-of-range values.
InitConfig ==
    /\ InitBatch({0, 1, DefaultThreads}, (-1)..MaxRetry \cup {DefaultRetry},
                 {0, DefaultTimeout}, {1})
    /\ OfflineDefaults
    /\ image_paths # <<>>
    /\ mode = "online" => retry_attempts \in (-1)..MaxRetry

SpecConfig == InitConfig /\ [][Next]_vars

\* Online batches whose retry loop goes round more than twice.
InitRetry ==
    /\ InitBatch(PoolSizes, 1..(MaxRetry + 1), {DefaultTimeout}, {1})
    /\ mode = "online"

NextOnline ==
    \/ process_images_online
    \/ \E i \in Items : process_single_image_start(i)
    \/ \E i \in Items, b \in RemoteBehaviours : remote_return(i, b)
    \/ \E i \in Items : backoff_done(i)
    \/ \E i \in Items : as_completed_next(i)
    \/ process_images_batch_return
    \/ \E w \in BOOLEAN : aggregate(w)
    \/ cancel_processing

SpecRetry == InitRetry /\ [][NextOnline]_vars

\* ------------------------------------------------------------------------
\* process_batch from its call on
\* ------------------------------------------------------------------------

\* Strategies a batch is run with: two the sorter knows, one it does not.
BatchMethods == {"alphabetical", "reverse_alphabetical", "by_date"}

\* process_batch has not been called yet.
InitIdle ==
    /\ phase = "Idle"
    /\ mode \in {"offline", "online"}
    /\ fault = None
    /\ file_paths \in PathLists(IF mode = "online" THEN OnlinePaths ELSE Paths)
    /\ sort_method \in BatchMethods
    /\ file_stats \in file_system(file_paths, sort_method)
    /\ NoWindow
    /\ image_paths = <<>>
    /\ max_threads \in PoolSizes \cup {DefaultThreads}
    /\ retry_attempts \in 1..MaxRetry \cup {DefaultRetry}
    /\ timeout_seconds = DefaultTimeout
    /\ latency = [i \in 1..Len(file_paths) |-> 1]
    /\ wstate = [i \in 1..Len(file_paths) |-> "pending"]
    /\ attempt = [i \in 1..Len(file_paths) |-> 0]
    /\ last_error = [i \in 1..Len(file_paths) |-> None]
    /\ response = [i \in 1..Len(file_paths) |-> Unbound]
    /\ elapsed = [i \in 1..Len(file_paths) |-> 0]
    /\ calls = [i \in 1..Len(file_paths) |-> 0]
    /\ fresult = [i \in 1..Len(file_paths) |-> NoneResult]
    /\ results = <<>>
    /\ completed = <<>>
    /\ completed_count = 0
    /\ events = <<>>
    /\ cancelled = FALSE
    /\ batch_result = None
    /\ report = <<>>
    /\ engine_calls = <<>>
    /\ sort_return = NotCalled
    /\ include_metadata = TRUE
    /\ format_type = "detailed"
    /\ mode = "offline" => max_threads = DefaultThreads /\ retry_attempts = DefaultRetry
    /\ mode = "online" => max_threads \in PoolSizes /\ retry_attempts \in 1..MaxRetry

\* process_batch_start that goes to the adapters with the paths as given
process_batch_start_unordered ==
    /\ phase = "Idle"
    /\ batch_result = None
    /\ phase' = "Ordered"
    /\ image_paths' = file_paths
    /\ UNCHANGED <<fault, worker, results, completed, completed_count, events,
                   cancelled, batch_result, report, engine_calls, settings, request>>

\* process_batch is called and goes to sort its paths.
process_batch_start ==
    /\ phase = "Idle"
    /\ batch_result = None
    /\ phase' = "Ordering"
    /\ UNCHANGED <<fault, image_paths, worker, results, completed, completed_count,
                   events, cancelled, batch_result, report, engine_calls, settings,
                   request>>

\* sorted_paths = self.sort_images(image_paths, sort_method)
sort_images_return ==
    /\ phase = "Ordering"
    /\ image_paths' \in sort_images(file_paths, sort_method, file_stats)
    /\ phase' = "Ordered"
    /\ UNCHANGED <<fault, worker, results, completed, completed_count, events,
                   cancelled, batch_result, report, engine_calls, settings, request>>

NextBatch ==
    \/ process_batch_start
    \/ sort_images_return
    \/ Next

SpecBatch == InitIdle /\ [][NextBatch]_vars

\* ------------------------------------------------------------------------
\* The sorter on its own
\* ------------------------------------------------------------------------

\* No batch is running and none has run.
NoBatch ==
    /\ NoWindow
    /\ phase = "Idle"
    /\ mode = "offline"
    /\ fault = None
    /\ image_paths = <<>>
    /\ max_threads = DefaultThreads
    /\ retry_attempts = DefaultRetry
    /\ timeout_seconds = DefaultTimeout
    /\ latency = <<>>
    /\ wstate = <<>>
    /\ attempt = <<>>
    /\ last_error = <<>>
    /\ response = <<>>
    /\ elapsed = <<>>
    /\ calls = <<>>
    /\ fresult = <<>>
    /\ completed = <<>>
    /\ completed_count = 0
    /\ events = <<>>
    /\ cancelled = FALSE
    /\ batch_result = None
    /\ report = <<>>
    /\ engine_calls = <<>>

InitSort ==
    /\ NoBatch
    /\ results = <<>>
    /\ file_paths \in UNION {[1..n -> SortNames] : n \in 0..MaxFiles}
    /\ sort_method \in sort_methods \cup {"by_date"}
    /\ file_stats \in file_system(file_paths, sort_method)
    /\ sort_return = NotCalled
    /\ include_metadata = TRUE
    /\ format_type = "detailed"

\* A caller runs sort_files(file_paths, sort_method).
sort_files_call ==
    /\ phase = "Idle"
    /\ ~sort_return.called
    /\ sort_return' \in sort_files(file_paths, sort_method, file_stats)
    /\ UNCHANGED <<batch, settings, file_paths, sort_method, include_metadata,
                   format_type, file_stats>>

NextSort == sort_files_call

SpecSort == InitSort /\ [][NextSort]_vars

\* ------------------------------------------------------------------------
\* The command line: main() sorts the files it found, process_batch sorts
\* them again
\* ------------------------------------------------------------------------

\* stats_of that reads the metadata by place in the list, not by file
stats_of_by_position(paths) == file_stats

\* What the file system says of the files of file_paths when they are asked
\* for in another order: the metadata of a file is what it was.
stats_of(paths) ==
    [r \in 1..Len(paths) |->
        file_stats[CHOOSE k \in 1..Len(file_paths) : file_paths[k] = paths[r]]]

\* find_images found something (main returns 1 when it did not).
InitMain ==
    /\ InitSort
    /\ file_paths # <<>>

\* `if len(image_paths) > 1: image_paths = processor.sort_images(...)`
main_sort_images ==
    /\ phase = "Idle"
    /\ ~sort_return.called
    /\ IF Len(file_paths) > 1
       THEN \E sorted_paths \in sort_images(file_paths, sort_method, file_stats) :
                sort_return' = Returned(sorted_paths)
       ELSE sort_return' = Returned(file_paths)
    /\ UNCHANGED <<batch, settings, file_paths, sort_method, include_metadata,
                   format_type, file_stats>>

\* main calls process_batch(image_paths=image_paths, sort_method=args.sort),
\* which sorts the list it is given.
main_process_batch ==
    /\ phase = "Idle"
    /\ sort_return.called
    /\ image_paths' \in sort_images(sort_return.value, sort_method,
                                    stats_of(sort_return.value))
    /\ phase' = "Ordered"
    /\ UNCHANGED <<fault, worker, results, completed, completed_count, events,
                   cancelled, batch_result, report, engine_calls, settings, request>>

NextMain ==
    \/ main_sort_images
    \/ main_process_batch

SpecMain == InitMain /\ [][NextMain]_vars

\* ------------------------------------------------------------------------
\* The formatter on its own
\* ------------------------------------------------------------------------

\* Outcomes a results list may hold: text found, no text found, and the
\* failures of a missing file and of the engine.
SampleResults ==
    {OCRResult("a.png", TRUE, <<"a">>, None, 1),
     OCRResult("a.png", TRUE, <<>>, None, 2),
     OCRResult("gone.png", FALSE, <<>>, "FileNotFound", 0),
     OCRResult("c.txt", FALSE, <<>>, "EngineError", 1)}

InitReport ==
    /\ NoBatch
    /\ results \in UNION {[1..n -> SampleResults] : n \in 0..MaxItems}
    /\ file_paths = <<>>
    /\ sort_method = "natural"
    /\ file_stats = <<>>
    /\ sort_return = NotCalled
    /\ include_metadata \in BOOLEAN
    /\ format_type \in {"detailed", "simple", "clean", "short"}

\* A caller runs format_results(results, include_metadata, format_type).
format_results_call ==
    /\ phase = "Idle"
    /\ report = <<>>
    /\ \E clock \in Clocks :
        report' = format_results(results, include_metadata, format_type, clock)
    /\ UNCHANGED <<phase, fault, image_paths, worker, results, completed,
                   completed_count, events, cancelled, batch_result, engine_calls,
                   settings, request>>

NextReport == format_results_call

SpecReport == InitReport /\ [][NextReport]_vars

\* ------------------------------------------------------------------------
\* The window: OCRPresenter
\* ------------------------------------------------------------------------

\* The window is open, nothing has been asked of the core.
InitWindow ==
    /\ NoBatch
    /\ results = <<>>
    /\ file_paths = <<>>
    /\ sort_method = "natural"
    /\ file_stats = <<>>
    /\ sort_return = NotCalled
    /\ include_metadata = TRUE
    /\ format_type = "detailed"

\* start_processing with n paths: the flags are reset and the thread started.
OCRPresenter_start_processing(n) ==
    /\ ~ocr_presenter.is_processing
    /\ ocr_presenter' =
          [ocr_presenter EXCEPT
              !.is_processing = TRUE, !.is_paused = FALSE, !.is_cancelled = FALSE,
              !.current_progress = [@ EXCEPT !.total_files = n,
                                             !.current_file_index = 0,
                                             !.is_paused = FALSE],
              !.thread = "batch", !.left = n]
    /\ UNCHANGED <<core, main_presenter>>

\* the body of _on_file_progress after self._pause_event.wait()
OCRPresenter_update_progress(o) ==
    [o EXCEPT
        !.current_progress =
            [@ EXCEPT !.current_file_index = @ + 1, !.current_filename = "file",
                      !.is_paused = o.is_paused],
        !.left = @ - 1, !.thread = "batch"]

\* process_batch calls the progress callback: it returns at once after a
\* cancellation, goes on when the pause event is set and waits otherwise.
OCRPresenter_on_file_progress ==
    /\ ocr_presenter.thread = "batch"
    /\ ocr_presenter.left > 0
    /\ ocr_presenter' =
          IF ocr_presenter.is_cancelled
          THEN [ocr_presenter EXCEPT !.left = @ - 1]
          ELSE IF ocr_presenter.pause_event
          THEN OCRPresenter_update_progress(ocr_presenter)
          ELSE [ocr_presenter EXCEPT !.thread = "waiting"]
    /\ UNCHANGED <<core, main_presenter>>

\* self._pause_event.wait() returns
OCRPresenter_wait_return ==
    /\ ocr_presenter.thread = "waiting"
    /\ ocr_presenter.pause_event
    /\ ocr_presenter' = OCRPresenter_update_progress(ocr_presenter)
    /\ UNCHANGED <<core, main_presenter>>

\* process_batch returns to _process_images_thread, or raises
OCRPresenter_process_batch_return(raised) ==
    /\ ocr_presenter.thread = "batch"
    /\ raised \/ ocr_presenter.left = 0
    /\ ocr_presenter' =
          IF raised
          THEN [ocr_presenter EXCEPT !.thread = "finally", !.notified = "error"]
          ELSE IF ~ocr_presenter.is_cancelled
          THEN [ocr_presenter EXCEPT
                   !.thread = "finally", !.notified = "completion",
                   !.current_progress = [@ EXCEPT !.current_filename = "Done"]]
          ELSE [ocr_presenter EXCEPT !.thread = "finally"]
    /\ UNCHANGED <<core, main_presenter>>

\* the finally block of _process_images_thread
OCRPresenter_finally ==
    /\ ocr_presenter.thread = "finally"
    /\ ocr_presenter' =
          [ocr_presenter EXCEPT
              !.is_processing = FALSE, !.is_paused = FALSE, !.thread = "none", !.left = 0]
    /\ UNCHANGED <<core, main_presenter>>

OCRPresenter_pause_processing ==
    /\ ocr_presenter.is_processing
    /\ ~ocr_presenter.is_paused
    /\ ocr_presenter' =
          [ocr_presenter EXCEPT
              !.is_paused = TRUE, !.pause_event = FALSE,
              !.current_progress = [@ EXCEPT !.is_paused = TRUE,
                                             !.current_filename = "Pause..."]]
    /\ UNCHANGED <<core, main_presenter>>

OCRPresenter_resume_processing ==
    /\ ocr_presenter.is_processing
    /\ ocr_presenter.is_paused
    /\ ocr_presenter' =
          [ocr_presenter EXCEPT
              !.is_paused = FALSE, !.pause_event = TRUE,
              !.current_progress = [@ EXCEPT !.is_paused = FALSE]]
    /\ UNCHANGED <<core, main_presenter>>

OCRPresenter_cancel_processing ==
    /\ ocr_presenter.is_processing
    /\ ocr_presenter' =
          [ocr_presenter EXCEPT
              !.is_cancelled = TRUE,
              !.pause_event = IF ocr_presenter.is_paused THEN TRUE ELSE @,
              !.current_progress = [@ EXCEPT !.current_filename = "Cancel..."]]
    /\ UNCHANGED <<core, main_presenter>>

NextOCRPresenter ==
    \/ \E n \in 1..MaxItems : OCRPresenter_start_processing(n)
    \/ OCRPresenter_on_file_progress
    \/ OCRPresenter_wait_return
    \/ \E raised \in BOOLEAN : OCRPresenter_process_batch_return(raised)
    \/ OCRPresenter_finally
    \/ OCRPresenter_pause_processing
    \/ OCRPresenter_resume_processing
    \/ OCRPresenter_cancel_processing

SpecOCRPresenter == InitWindow /\ [][NextOCRPresenter]_vars

\* ------------------------------------------------------------------------
\* The window: MainPresenter and the ProcessingState of its AppModel
\* ------------------------------------------------------------------------

\* A thread of _process_images_thread: where it is, the progress callbacks
\* its batch has still to make, whether cancel_processing was called while
\* it was alive, and what it has told the model and the view since then.
Thread(pc, left, was_cancelled, late) ==
    [pc |-> pc, left |-> left, cancelled |-> was_cancelled, late |-> late]

\* thread th calls the model or the view: kept if the run was cancelled
told(th, what) == IF th.cancelled THEN [th EXCEPT !.late = @ \cup what] ELSE th

\* self._processing_thread and self._processing_thread.is_alive()
is_alive(m) == m.threads # <<>> /\ m.threads[Len(m.threads)].pc # "ended"

\* MainPresenter.cancel_processing up to its join: the flag is raised and
\* the model leaves the running state (can_cancel is always True).
MainPresenter_cancel(m) ==
    [m EXCEPT
        !.processing_cancelled = TRUE,
        !.is_running = FALSE,
        !.threads = [t \in 1..Len(m.threads) |->
                        IF m.threads[t].pc # "ended"
                        THEN [m.threads[t] EXCEPT !.cancelled = TRUE]
                        ELSE m.threads[t]]]

\* `self._processing_cancelled = False` and the start of a new thread
MainPresenter_launch(m) ==
    [m EXCEPT
        !.processing_cancelled = FALSE,
        !.caller = "idle",
        !.threads = Append(@, Thread("started", 0, FALSE, {}))]

\* start_processing: refused while the model is running; a thread that is
\* still alive is cancelled and joined first.
MainPresenter_start_processing ==
    /\ main_presenter.caller = "idle"
    /\ ~main_presenter.is_running
    /\ Len(main_presenter.threads) < MaxRuns
    /\ main_presenter' =
          IF is_alive(main_presenter)
          THEN [MainPresenter_cancel(main_presenter) EXCEPT !.caller = "joining"]
          ELSE MainPresenter_launch(main_presenter)
    /\ UNCHANGED <<core, ocr_presenter>>

\* join(timeout=5.0) inside start_processing returns, the thread having
\* ended or the five seconds having passed.
MainPresenter_join_return ==
    /\ main_presenter.caller = "joining"
    /\ main_presenter' = MainPresenter_launch(main_presenter)
    /\ UNCHANGED <<core, ocr_presenter>>

\* cancel_processing called from the window
MainPresenter_cancel_processing ==
    /\ main_presenter.caller = "idle"
    /\ main_presenter' = MainPresenter_cancel(main_presenter)
    /\ UNCHANGED <<core, ocr_presenter>>

\* the thread reaches self.app_model.start_processing(len(image_paths))
MainPresenter_thread_begin(t, n) ==
    /\ main_presenter.threads[t].pc = "started"
    /\ main_presenter' =
          [main_presenter EXCEPT
              !.is_running = TRUE,
              !.current_file_index = 0,
              !.threads[t] = [@ EXCEPT !.pc = "batch", !.left = n]]
    /\ UNCHANGED <<core, ocr_presenter>>

\* process_batch of thread t calls progress_callback
MainPresenter_progress_callback(t) ==
    /\ main_presenter.threads[t].pc = "batch"
    /\ main_presenter.threads[t].left > 0
    /\ main_presenter' =
          IF main_presenter.processing_cancelled
          THEN [main_presenter EXCEPT !.threads[t].left = @ - 1]
          ELSE [main_presenter EXCEPT
                   !.current_file_index = @ + 1,
                   !.threads[t] =
                       told([@ EXCEPT !.left = @ - 1], {"update_processing_progress"})]
    /\ UNCHANGED <<core, ocr_presenter>>

\* process_batch of thread t returns, or raises
MainPresenter_process_batch_return(t, raised) ==
    /\ main_presenter.threads[t].pc = "batch"
    /\ raised \/ main_presenter.threads[t].left = 0
    /\ main_presenter' =
          IF raised
          THEN [main_presenter EXCEPT
                   !.is_running = FALSE,
                   !.threads[t] = told([@ EXCEPT !.pc = "ended"], {"finish_processing"})]
          ELSE IF ~main_presenter.processing_cancelled
          THEN [main_presenter EXCEPT
                   !.is_running = FALSE,
                   !.threads[t] =
                       told([@ EXCEPT !.pc = "ended"],
                            {"finish_processing", "on_processing_completed"})]
          ELSE [main_presenter EXCEPT !.threads[t].pc = "ended"]
    /\ UNCHANGED <<core, ocr_presenter>>

NextMainPresenter ==
    \/ MainPresenter_start_processing
    \/ MainPresenter_join_return
    \/ MainPresenter_cancel_processing
    \/ \E t \in 1..Len(main_presenter.threads), n \in 1..MaxItems :
          MainPresenter_thread_begin(t, n)
    \/ \E t \in 1..Len(main_presenter.threads) : MainPresenter_progress_callback(t)
    \/ \E t \in 1..Len(main_presenter.threads), raised \in BOOLEAN :
          MainPresenter_process_batch_return(t, raised)

SpecMainPresenter == InitWindow /\ [][NextMainPresenter]_vars

\* ------------------------------------------------------------------------
\* Claims
\* ------------------------------------------------------------------------

\* The selected adapter has handed its results list back to process_batch.
AdapterReturned ==
    \/ phase \in {"Aggregating", "Done"}
    \/ phase = "Failed" /\ fault = ReportFault

\* C1: whichever backend ran and in whatever order the workers finished, the
\* returned list has one outcome per ordered input path: as long as the path
\* list, no slot empty, slot i holding the outcome of processing path i, and
\* no index yielded twice.
C1_OneOutcomePerItem ==
    /\ AdapterReturned =>
        /\ Len(results) = N
        /\ \A i \in Items :
            /\ results[i] # NoneResult
            /\ results[i].file_path = image_paths[i]
            /\ mode = "online" => results[i] = fresult[i]
    /\ \A k, l \in 1..Len(completed) : completed[k] = completed[l] => k = l

C1_Witness ==
    /\ AdapterReturned
    /\ mode = "online"
    /\ N = 2
    /\ results[1].success
    /\ ~results[2].success

\* C2: in the concurrent adapter the slot written for a completed future is
\* the slot of its submission index, whatever the position of the future in
\* the completion order, during collection and in the returned list, and a
\* slot whose future has not been yielded yet is still empty: completion
\* order never decides output order.
C2_CompletionOrderIrrelevant ==
    (mode = "online" /\ (phase = "Dispatching" \/ AdapterReturned)) =>
        /\ \A k \in 1..Len(completed) :
            /\ results[completed[k]].file_path = image_paths[completed[k]]
            /\ results[completed[k]] = fresult[completed[k]]
        /\ \A i \in Items :
            (\A k \in 1..Len(completed) : completed[k] # i) => results[i] = NoneResult

\* Two different images, the second finished and collected first.
C2_Witness ==
    /\ mode = "online"
    /\ phase = "Aggregating"
    /\ N = 2
    /\ image_paths[1] # image_paths[2]
    /\ completed = <<2, 1>>
    /\ results[1].file_path = image_paths[1]

\* C3: the remote client is never called more than retry_attempts times for
\* one item, and once an attempt of an item has returned a non-blank response
\* (the item is finished with success) no further call is made for it.
C3_CallsWithinRetryLimit ==
    /\ [](\A i \in Items : calls[i] <= retry_attempts)
    /\ [][\A i \in Items :
            (wstate[i] = "finished" /\ fresult[i].success) => calls'[i] = calls[i]]_vars

\* An item that used up all its attempts.
C3_Witness ==
    \E i \in Items :
        /\ retry_attempts >= 2
        /\ calls[i] = retry_attempts
        /\ wstate[i] = "finished"
        /\ ~fresult[i].success

\* A text with nothing but spaces in it (the empty text included).
OnlyWhitespace(t) == \A k \in 1..Len(t) : t[k] = " "

\* C4: an item whose last permitted attempt (the retry_attempts-th call)
\* returns a non-blank response, every earlier attempt having failed, ends
\* with success = True, the stripped response as text and no error message.
C4_SuccessOnFinalAttempt ==
    \A i \in Items :
        (/\ mode = "online"
         /\ wstate[i] = "finished"
         /\ retry_attempts >= 1
         /\ calls[i] = retry_attempts
         /\ response[i] # Unbound
         /\ ~OnlyWhitespace(response[i]))
        => /\ fresult[i].success
           /\ fresult[i].text_content = strip(response[i])
           /\ fresult[i].error_message = None

\* Two attempts allowed: the first raised, the second returned text.
C4_Witness ==
    \E i \in Items :
        /\ retry_attempts = 2
        /\ calls[i] = 2
        /\ wstate[i] = "finished"
        /\ last_error[i] = "RemoteError"
        /\ fresult[i].success
        /\ fresult[i].text_content = <<"a">>

\* C5: a blank (empty or whitespace-only) response is never a success: the
\* item is retried as after a raised error, so it fails for blankness only
\* once its attempts are used up, and then with the empty-response error.
C5_BlankResponseIsFailure ==
    \A i \in Items :
        /\ (wstate[i] = "finished" /\ fresult[i].success)
            => (response[i] # Unbound /\ ~OnlyWhitespace(response[i]))
        /\ (wstate[i] = "finished" /\ last_error[i] = "EmptyResponse" /\ ~fresult[i].success)
            => (fresult[i].error_message = "EmptyResponse" /\ calls[i] = retry_attempts)
        /\ (wstate[i] = "sleep" /\ last_error[i] = "EmptyResponse")
            => calls[i] < retry_attempts

\* Every attempt of an item came back with whitespace only.
C5_Witness ==
    \E i \in Items :
        /\ retry_attempts >= 2
        /\ calls[i] = retry_attempts
        /\ wstate[i] = "finished"
        /\ response[i] = <<" ">>
        /\ fresult[i].error_message = "EmptyResponse"

\* C6: an item whose remote call runs longer than timeout_seconds on every
\* attempt ends failed, with the timeout error.
C6_SlowItemTimesOut ==
    \A i \in Items :
        (/\ mode = "online"
         /\ wstate[i] = "finished"
         /\ calls[i] >= 1
         /\ latency[i] > timeout_seconds)
        => (~fresult[i].success /\ fresult[i].error_message = "Timeout")

\* C7: once the cancellation flag is set, no item gets a new remote call and
\* no item enters a retry backoff.
C7_NoAttemptAfterCancel ==
    [][cancelled =>
        \A i \in Items :
            /\ calls'[i] = calls[i]
            /\ (wstate'[i] = "sleep" => wstate[i] = "sleep")]_vars

\* C8: an item still unscheduled when the batch is cancelled is given a
\* failed outcome whose error is Cancelled.
C8_UnscheduledItemsCancelled ==
    [][\A i \in Items :
        (cancelled /\ mode = "online" /\ wstate[i] = "pending" /\ wstate'[i] # "pending")
        => (wstate'[i] = "finished" /\ fresult'[i].error_message = "Cancelled")]_vars

\* C9: the failure of an item is kept in its outcome and never leaves the
\* batch as an exception: process_batch fails only when the report cannot be
\* written, the adapter returns only after every item has an outcome, and a
\* batch in which every item failed still ends Done, with a full results list
\* and successful_files = 0.
C9_ItemFailuresStayLocal ==
    /\ phase = "Failed" => fault = ReportFault
    /\ AdapterReturned =>
        /\ Len(results) = N
        /\ mode = "online" => \A i \in Items : wstate[i] = "finished"
    /\ phase = "Done" =>
        /\ Len(batch_result.results) = N
        /\ (\A i \in Items : ~results[i].success) => batch_result.successful_files = 0

\* Two items, both failed, and the batch is Done.
C9_Witness ==
    /\ phase = "Done"
    /\ N = 2
    /\ \A i \in Items : ~results[i].success
    /\ batch_result.successful_files = 0

ConfigInvalid == max_threads < 1 \/ retry_attempts < 0 \/ timeout_seconds <= 0

\* C10: with max_threads < 1, retry_attempts < 0 or timeout_seconds <= 0 the
\* batch fails at entry: it never dispatches, no item is processed, no
\* progress is reported and no outcome exists.
C10_InvalidConfigRejected ==
    ConfigInvalid =>
        /\ phase \in {"Ordered", "Failed"}
        /\ results = <<>>
        /\ events = <<>>
        /\ \A i \in Items : wstate[i] = "pending" /\ calls[i] = 0

\* How often x occurs in the list s.
Occurrences(s, x) == Cardinality({k \in 1..Len(s) : s[k] = x})

\* C11: called with any of its eight strategies, random included, sort_files
\* returns a list (it does not raise) that is a permutation of the list it
\* was given: as long, and holding every path as often as the input does.
C11_SortReturnsPermutation ==
    (sort_return.called /\ sort_method \in sort_methods) =>
        /\ sort_return.raised = None
        /\ Len(sort_return.value) = Len(file_paths)
        /\ \A x \in SortNames :
            Occurrences(sort_return.value, x) = Occurrences(file_paths, x)

\* The random strategy moved the paths of a list that names one file twice.
C11_Witness ==
    /\ sort_return.called
    /\ sort_method = "random"
    /\ Len(file_paths) = 3
    /\ file_paths[1] = file_paths[2]
    /\ file_paths[2] # file_paths[3]
    /\ sort_return.value # file_paths

\* Where a name stands in natural order: by its runs of non-digits (case
\* ignored) and of digits (as numbers). "A2.png" ties with "a2.png"; the
\* name that starts with U+00B2 comes after every name that starts with "a".
NaturalRank(p) ==
    CASE p = "a1.png" -> 1
      [] p = "a2.png" -> 2
      [] p = "A2.png" -> 2
      [] p = "a10.png" -> 3
      [] p = "SUP2+1.png" -> 4

\* C12: under the natural strategy the returned list is in natural order of
\* the basenames (digit runs as numbers, other runs case-insensitively), so
\* a2.png is never after a10.png, and [a2.png, a10.png, a1.png] comes back
\* as [a1.png, a2.png, a10.png].
C12_NaturalOrder ==
    (sort_return.called /\ sort_method = "natural") =>
        /\ \A i, j \in 1..Len(sort_return.value) :
            i < j => NaturalRank(sort_return.value[i]) <= NaturalRank(sort_return.value[j])
        /\ file_paths = <<"a2.png", "a10.png", "a1.png">>
            => sort_return.value = <<"a1.png", "a2.png", "a10.png">>

\* The blocks of a report that belong to one section.
Section(rep, name) == SelectSeq(rep, LAMBDA b : b.section = name)

\* The outcomes of a results list that succeeded, or that failed.
Outcomes(res, ok) == SelectSeq(res, LAMBDA r : r.success = ok)

\* The succeeded section lists exactly the succeeded outcomes, in order.
ListsSucceeded(rep, res) ==
    /\ Len(Section(rep, "succeeded")) = Len(Outcomes(res, TRUE))
    /\ \A k \in 1..Len(Outcomes(res, TRUE)) :
        /\ Section(rep, "succeeded")[k].file_path \in {Outcomes(res, TRUE)[k].file_path, None}
        /\ Section(rep, "succeeded")[k].text \in {Outcomes(res, TRUE)[k].text_content, NoText}

\* The failed section lists exactly the failed outcomes, in order.
ListsFailed(rep, res) ==
    /\ Len(Section(rep, "failed")) = Len(Outcomes(res, FALSE))
    /\ \A k \in 1..Len(Outcomes(res, FALSE)) :
        /\ Section(rep, "failed")[k].file_path = Outcomes(res, FALSE)[k].file_path
        /\ Section(rep, "failed")[k].error = Outcomes(res, FALSE)[k].error_message

Mixed(res) == Outcomes(res, TRUE) # <<>> /\ Outcomes(res, FALSE) # <<>>

\* C13 as stated: the report of a batch with successes and failures lists
\* exactly the succeeded outcomes in its succeeded section and exactly the
\* failed outcomes in its failed section, every outcome in one of the two.
C13_SectionsPartitionOutcomes ==
    (report # <<>> /\ Mixed(results)) =>
        /\ ListsSucceeded(report, results)
        /\ ListsFailed(report, results)
        /\ Len(Section(report, "succeeded")) + Len(Section(report, "failed")) = Len(results)

\* C13 as the code has it: the detailed rendering with metadata (the one
\* process_batch writes; an unknown format type is rendered so too) lists
\* exactly the succeeded outcomes in its succeeded section and exactly the
\* failed ones in its failed section, each outcome once. Without metadata,
\* and in the simple rendering, the succeeded outcomes are listed and there
\* is no failed section; the clean rendering holds the texts of the
\* succeeded outcomes whose text is not blank and nothing else.
C13_SectionsByRendering ==
    (report # <<>> /\ Mixed(results)) =>
        /\ (format_type \notin {"simple", "clean"} /\ include_metadata) =>
            /\ ListsSucceeded(report, results)
            /\ ListsFailed(report, results)
            /\ Len(Section(report, "succeeded")) + Len(Section(report, "failed"))
                = Len(results)
        /\ (format_type # "clean" /\ (format_type = "simple" \/ ~include_metadata)) =>
            /\ ListsSucceeded(report, results)
            /\ Section(report, "failed") = <<>>
        /\ format_type = "clean" =>
            /\ Section(report, "failed") = <<>>
            /\ Len(report) = Len(SelectSeq(results,
                    LAMBDA r : r.success /\ ~OnlyWhitespace(r.text_content)))
            /\ \A k \in 1..Len(report) :
                report[k].section = "succeeded" /\ ~OnlyWhitespace(report[k].text)

\* A detailed report with metadata of one success and one failure.
C13_Witness ==
    /\ report # <<>>
    /\ format_type = "detailed"
    /\ include_metadata
    /\ Len(results) = 2
    /\ ~results[1].success
    /\ results[2].success
    /\ Len(Section(report, "failed")) = 1
    /\ Len(Section(report, "succeeded")) = 1

\* Where a file name of the batch stands in the alphabet.
AlphabeticalRank(p) ==
    CASE p = "a.png" -> 1
      [] p = "c.txt" -> 2
      [] p = "gone.png" -> 3

\* C14: the OCRBatchResult of a finished batch has total_files equal to the
\* number of paths given, successful_files equal to the number of its
\* results with success = True, and its results in the order of the sorting
\* strategy, not of the input: ascending by name under alphabetical,
\* descending under reverse_alphabetical, one result per path given. For
\* [a.png, gone.png] under reverse_alphabetical the first result is the
\* failure of gone.png.
C14_BatchResultCounts ==
    phase = "Done" =>
        /\ batch_result.total_files = Len(file_paths)
        /\ Len(batch_result.results) = Len(file_paths)
        /\ batch_result.successful_files
            = Cardinality({i \in 1..Len(batch_result.results) : batch_result.results[i].success})
        /\ \A x \in Paths :
            Cardinality({i \in 1..Len(batch_result.results) :
                            batch_result.results[i].file_path = x})
            = Occurrences(file_paths, x)
        /\ \A i, j \in 1..Len(batch_result.results) :
            i < j =>
                /\ sort_method = "alphabetical" =>
                    AlphabeticalRank(batch_result.results[i].file_path)
                        <= AlphabeticalRank(batch_result.results[j].file_path)
                /\ sort_method = "reverse_alphabetical" =>
                    AlphabeticalRank(batch_result.results[i].file_path)
                        >= AlphabeticalRank(batch_result.results[j].file_path)
        /\ (file_paths = <<"a.png", "gone.png">> /\ sort_method = "reverse_alphabetical") =>
            /\ batch_result.results[1].file_path = "gone.png"
            /\ ~batch_result.results[1].success

\* [a.png, gone.png] under reverse_alphabetical: gone.png is processed first
\* and fails, a.png succeeds.
C14_Witness ==
    /\ phase = "Done"
    /\ file_paths = <<"a.png", "gone.png">>
    /\ sort_method = "reverse_alphabetical"
    /\ batch_result.total_files = 2
    /\ batch_result.successful_files = 1
    /\ batch_result.results[1].file_path = "gone.png"
    /\ ~batch_result.results[1].success
    /\ batch_result.results[2].success

\* An outcome with an error message exactly when it failed, and with no
\* text when it failed.
ErrorIffFailed(r) ==
    /\ (r.error_message # None) <=> ~r.success
    /\ ~r.success => r.text_content = <<>>

\* C15: every outcome of either backend (held by a future, put in the
\* results list, or returned in the OCRBatchResult) has an error message if
\* and only if success is False, and an empty text when success is False.
C15_ErrorIffFailed ==
    /\ \A i \in Items : wstate[i] = "finished" => ErrorIffFailed(fresult[i])
    /\ \A k \in 1..Len(results) : results[k] # NoneResult => ErrorIffFailed(results[k])
    /\ phase = "Done" =>
        \A k \in 1..Len(batch_result.results) : ErrorIffFailed(batch_result.results[k])

\* An offline batch done with a text found for one image and a failure for
\* the other.
C15_Witness ==
    /\ phase = "Done"
    /\ mode = "offline"
    /\ Len(results) = 2
    /\ results[1].success
    /\ results[1].text_content # <<>>
    /\ ~results[2].success
    /\ results[2].error_message = "EngineError"

\* C16: in a run of the concurrent adapter that gets its pool, there is one
\* progress event per collected item, the k-th event carries the count k
\* (so the counts go 1, 2, ... N whatever the completion order), the total
\* N and the basename of the item collected k-th, that item's slot is
\* already written when the event exists, and the adapter returns with N
\* events.
C16_OneProgressEventPerItem ==
    (mode = "online" /\ (phase = "Dispatching" \/ AdapterReturned)) =>
        /\ Len(events) = Len(completed)
        /\ \A k, l \in 1..Len(completed) : completed[k] = completed[l] => k = l
        /\ \A k \in 1..Len(events) :
            /\ events[k].current = k
            /\ events[k].total = N
            /\ events[k].label = basename(image_paths[completed[k]])
            /\ results[completed[k]] # NoneResult
        /\ AdapterReturned => Len(events) = N

\* The second of two different images was collected first: its event
\* carries the count 1.
C16_Witness ==
    /\ mode = "online"
    /\ N = 2
    /\ image_paths[1] # image_paths[2]
    /\ completed = <<2, 1>>
    /\ Len(events) = 2
    /\ events[1].current = 1
    /\ events[1].label = basename(image_paths[2])

\* C17: in the sequential adapter the k-th progress event is emitted when
\* the k-th item has its outcome, carries the count k and the basename of
\* that item, and the adapter returns with one event per item.
C17_ProgressAfterItem ==
    (mode = "offline" /\ (phase = "Dispatching" \/ AdapterReturned)) =>
        /\ \A k \in 1..Len(events) :
            /\ k <= Len(results)
            /\ events[k].current = k
            /\ events[k].label = basename(image_paths[k])
        /\ AdapterReturned => Len(events) = N

\* C18: in the concurrent adapter the items in a remote call or in a backoff
\* are never more than max_threads, an item taken from the queue is never
\* taken again, and when the adapter returns every item has been taken and
\* is finished.
C18_BoundedConcurrency ==
    /\ [](mode = "online" =>
            /\ Cardinality({i \in Items : wstate[i] \in {"call", "sleep"}}) <= max_threads
            /\ AdapterReturned => \A i \in Items : wstate[i] = "finished")
    /\ [][\A i \in Items : wstate[i] # "pending" => wstate'[i] # "pending"]_vars

\* One worker, two items: the first is in its remote call and the second
\* waits in the queue.
C18_Witness ==
    /\ mode = "online"
    /\ max_threads = 1
    /\ N = 2
    /\ wstate[1] = "call"
    /\ wstate[2] = "pending"

\* C19: process_batch goes Idle, Ordering, (paths ordered), Dispatching,
\* Aggregating, Done, one phase at a time and in that order, leaving the
\* sequence only by raising; no remote call, no engine call and no outcome
\* exists until the ordering has returned; the report and the OCRBatchResult
\* exist only in Done, after the adapter returned one outcome per path, and
\* the OCRBatchResult never without the report.
C19_PhasesInOrder ==
    /\ [][phase' # phase =>
            \/ phase = "Idle" /\ phase' = "Ordering"
            \/ phase = "Ordering" /\ phase' = "Ordered"
            \/ phase = "Ordered" /\ phase' \in {"Dispatching", "Failed"}
            \/ phase = "Dispatching" /\ phase' = "Aggregating"
            \/ phase = "Aggregating" /\ phase' \in {"Done", "Failed"}]_vars
    /\ [](phase \in {"Idle", "Ordering", "Ordered"} =>
            /\ \A i \in DOMAIN calls : calls[i] = 0
            /\ engine_calls = <<>>
            /\ results = <<>>
            /\ events = <<>>)
    /\ [](phase # "Done" => (batch_result = None /\ report = <<>>))
    /\ [](phase = "Done" =>
            /\ report # <<>>
            /\ Len(results) = Len(file_paths)
            /\ \A k \in 1..Len(results) : results[k] # NoneResult
            /\ batch_result.results = results)

\* An online batch of two images that the ordering turned round is Done.
C19_Witness ==
    /\ phase = "Done"
    /\ mode = "online"
    /\ Len(file_paths) = 2
    /\ image_paths # file_paths
    /\ report # <<>>
    /\ \E i \in Items : calls[i] > 0

\* C20: in the sequential adapter an image that is not on disk ends failed
\* with the not-found error, an image on disk whose suffix is no supported
\* format ends failed with the unsupported-format error, and for neither is
\* the language set up, the image loaded or the engine run.
C20_InvalidPathSkipsEngine ==
    mode = "offline" =>
        \A i \in 1..Len(results) :
            (~exists(image_paths[i]) \/ suffix(image_paths[i]) \notin supported_formats) =>
                /\ ~results[i].success
                /\ results[i].error_message
                    = (IF ~exists(image_paths[i]) THEN "FileNotFound" ELSE "UnsupportedFormat")
                /\ \A k \in 1..Len(engine_calls) : engine_calls[k].item # i

\* A missing file and a text file were processed after a readable image,
\* and only the image reached the engine.
C20_Witness ==
    /\ mode = "offline"
    /\ Len(results) = 2
    /\ image_paths \in {<<"gone.png", "c.txt">>, <<"c.txt", "gone.png">>}
    /\ engine_calls = <<>>
    /\ results[1].error_message \in {"FileNotFound", "UnsupportedFormat"}

\* C21: in the retry loop of one item, the k-th failed attempt (k counted from
\* 1, k below retry_attempts) is followed by a sleep of k * 2 seconds, the
\* last failed attempt is followed by no sleep, and the outcome of an item
\* whose attempts all failed carries the error of the last attempt.
RECURSIVE SumTo(_)
SumTo(n) == IF n <= 0 THEN 0 ELSE n + SumTo(n - 1)

Exhausted(i) ==
    /\ mode = "online"
    /\ wstate[i] = "finished"
    /\ exists(image_paths[i])
    /\ ~fresult[i].success

C21_TimeOfExhausted ==
    \A i \in Items :
        Exhausted(i) /\ retry_attempts > 0 =>
            /\ calls[i] = retry_attempts
            /\ fresult[i].processing_time =
                   calls[i] * latency[i] + 2 * SumTo(calls[i] - 1)

C21_RetryStep ==
    \A i \in Items :
        /\ wstate[i] = "call" /\ wstate'[i] = "sleep" =>
               /\ attempt[i] + 1 < retry_attempts
               /\ elapsed'[i] = elapsed[i] + latency[i]
        /\ wstate[i] = "sleep" /\ wstate'[i] = "call" =>
               /\ elapsed'[i] - elapsed[i] = 2 * (attempt[i] + 1)
               /\ attempt'[i] = attempt[i] + 1
               /\ calls'[i] = calls[i] + 1
        /\ wstate[i] = "call" /\ wstate'[i] = "finished" /\ ~fresult'[i].success =>
               /\ attempt[i] + 1 = retry_attempts
               /\ fresult'[i].processing_time = elapsed[i] + latency[i]
               /\ fresult'[i].error_message \in {"RemoteError", "EmptyResponse"}
               /\ response'[i] # response[i] => fresult'[i].error_message = "EmptyResponse"
               /\ response'[i] = Unbound => fresult'[i].error_message = "RemoteError"

DeterministicMethods == sort_methods \ {"random"}

\* the sort key the strategy asked for gives to file_paths[k]
SortKey(k) ==
    CASE sort_method = "natural" -> natural_sort_key(chars(file_paths[k]))
      [] sort_method \in {"alphabetical", "reverse_alphabetical"} ->
            <<lower(chars(file_paths[k]))>>
      [] sort_method = "creation_time" -> <<<<get_file_creation_time(file_stats[k])>>>>
      [] sort_method = "modification_time" ->
            <<<<get_file_modification_time(file_stats[k])>>>>
      [] sort_method \in {"file_size", "file_size_desc"} ->
            <<<<get_file_size(file_stats[k])>>>>

\* the paths of the input whose key is that of file_paths[k]
KeyClass(k) ==
    {file_paths[m] : m \in {m \in 1..Len(file_paths) : SortKey(m) = SortKey(k)}}

Restricted(paths, class) == SelectSeq(paths, LAMBDA p : p \in class)

C22_StableSort ==
    (sort_return.called /\ sort_method \in DeterministicMethods) =>
        \A k \in 1..Len(file_paths) :
            Restricted(sort_return.value, KeyClass(k)) = Restricted(file_paths, KeyClass(k))

\* largest first, and the two files of size 0 as they came
C22_Witness ==
    /\ sort_method = "file_size_desc"
    /\ file_paths = <<"a1.png", "a2.png", "a10.png">>
    /\ SortKey(1) = SortKey(3)
    /\ SortKey(1) # SortKey(2)
    /\ sort_return.value = <<"a2.png", "a1.png", "a10.png">>

\* C23: ordering never fails: for every list and every strategy name the
\* caller gets a list back, which holds the paths of the input and is either
\* in input order or ordered by the keys of the strategy; a file whose
\* metadata cannot be read counts as time 0 / size 0.
Ordered(paths) ==
    \A r \in 1..(Len(paths) - 1) :
        LET x == SortKey(CHOOSE k \in 1..Len(file_paths) : file_paths[k] = paths[r])
            y == SortKey(CHOOSE k \in 1..Len(file_paths) : file_paths[k] = paths[r + 1])
        IN  IF sort_method \in {"reverse_alphabetical", "file_size_desc"}
            THEN ~key_less(x, y)
            ELSE ~key_less(y, x)

SamePaths(paths, input) ==
    /\ Len(paths) = Len(input)
    /\ \A x \in SortNames : Occurrences(paths, x) = Occurrences(input, x)

InputOrOrdered(paths, input) ==
    /\ SamePaths(paths, input)
    /\ \/ paths = input
       \/ sort_method = "random"
       \/ sort_method \in DeterministicMethods /\ Ordered(paths)

Unreadable(k) == ~file_stats[k].stat_ok /\ ~file_stats[k].mtime_ok

C23_OrderingNeverFails ==
    /\ sort_return.called =>
          /\ sort_return.raised = None
          /\ InputOrOrdered(sort_return.value, file_paths)
    /\ phase = "Ordered" => InputOrOrdered(image_paths, file_paths)
    /\ \A k \in 1..Len(file_paths) :
          (sort_method \in stat_methods /\ Unreadable(k)) => SortKey(k) = <<<<0>>>>

\* a strategy name the sorter does not know: both calls give the input back
C23_WitnessUnknown ==
    /\ phase = "Ordered"
    /\ sort_method = "by_date"
    /\ file_paths = <<"a2.png", "a1.png">>
    /\ image_paths = file_paths

\* a name whose key cannot be built: the input order comes back
C23_WitnessKey ==
    /\ phase = "Ordered"
    /\ sort_method = "natural"
    /\ file_paths = <<"a2.png", "SUP2+1.png", "a1.png">>
    /\ image_paths = file_paths

\* a file without readable metadata goes first as the oldest
C23_WitnessMetadata ==
    /\ phase = "Ordered"
    /\ sort_method = "modification_time"
    /\ file_paths = <<"a1.png", "a2.png">>
    /\ ~Unreadable(1)
    /\ Unreadable(2)
    /\ image_paths = <<"a2.png", "a1.png">>

\* C30: ordering is idempotent for every deterministic strategy: with the
\* metadata of the files unchanged, the list main() sorted comes out of the
\* sort of process_batch in the same order.
C30_SortIdempotent ==
    (phase = "Ordered" /\ sort_method \in DeterministicMethods) =>
        image_paths = sort_return.value

\* a descending sort with two equal keys that moved the files the first time
C30_Witness ==
    /\ phase = "Ordered"
    /\ sort_method = "file_size_desc"
    /\ file_paths = <<"a1.png", "a2.png", "a10.png">>
    /\ sort_return.value = <<"a2.png", "a1.png", "a10.png">>
    /\ image_paths = sort_return.value

\* C24: every duration figure of the report (total, average, minimum,
\* maximum) is computed from the durations of the succeeded outcomes only,
\* in the statistics block and in the footer alike.
SucceededTimes ==
    LET ok == SelectSeq(results, LAMBDA r : r.success)
    IN  SelectSeq([k \in 1..Len(ok) |-> ok[k].processing_time], LAMBDA t : t > 0)

C24_DurationsOverSucceeded ==
    \A k \in 1..Len(report) :
        /\ (report[k].section = "statistics" /\ SucceededTimes # <<>>) =>
              /\ report[k].figures[4] = sum(SucceededTimes) \div Len(SucceededTimes)
              /\ report[k].figures[5] = max(SucceededTimes)
              /\ report[k].figures[6] = min(SucceededTimes)
        /\ (report[k].section = "footer" /\ report[k].figures # <<>>) =>
              report[k].figures[2] = sum(SucceededTimes)

\* C25: report assembly is deterministic: for the detailed, the simple and
\* the clean rendering and for the report of an empty list, a second call of
\* format_results with the same outcomes and options returns the text the
\* first call returned, whenever it is made.
C25_ReportDeterministic ==
    report # <<>> =>
        \A clock \in Clocks :
            format_results(results, include_metadata, format_type, clock) = report

\* C29: in the concurrent adapter an item whose file does not exist ends
\* with a failed outcome, no remote call is made for it and it neither
\* retries nor sleeps, whatever retry_attempts is.
MissingFile(i) == mode = "online" /\ image_paths[i] = "gone.png"

C29_MissingFileNoRemoteCall ==
    \A i \in Items :
        MissingFile(i) =>
            /\ calls[i] = 0
            /\ attempt[i] = 0
            /\ elapsed[i] = 0
            /\ wstate[i] \in {"pending", "finished"}
            /\ wstate[i] = "finished" =>
                  /\ ~fresult[i].success
                  /\ fresult[i].error_message = "FileNotFound"
                  /\ fresult[i].processing_time = 0
            /\ (phase \in {"Aggregating", "Done"}) => ~results[i].success

\* with three attempts allowed the missing file has its failed outcome and
\* no call behind it, while the file next to it was called three times
C29_Witness ==
    /\ retry_attempts = 3
    /\ phase = "Aggregating"
    /\ \E i, j \in Items :
          /\ MissingFile(i)
          /\ ~results[i].success
          /\ calls[i] = 0
          /\ calls[j] = 3

\* C26: in the OCRPresenter, after any calls of start_processing,
\* pause_processing, resume_processing and cancel_processing and any run
\* coming to its end, the pause event is set whenever _is_paused is false,
\* so the progress callback of a run never waits while the presenter says it
\* is not paused.
C26_NotPausedNeverBlocks ==
    ~ocr_presenter.is_paused => ocr_presenter.pause_event

\* C27: in the MainPresenter, whatever calls of start_processing and
\* cancel_processing are made, at most one thread is inside process_batch at
\* any time.
C27_OneBatchThread ==
    Cardinality({t \in 1..Len(main_presenter.threads) :
                    main_presenter.threads[t].pc = "batch"}) <= 1

\* C28: a run of the MainPresenter that was cancelled with cancel_processing
\* never afterwards calls finish_processing or on_processing_completed and
\* passes no further progress update to the model, a new run being started
\* before its thread ends or not.
C28_CancelledRunStaysSilent ==
    \A t \in 1..Len(main_presenter.threads) : main_presenter.threads[t].late = {}

====
